---- MODULE Spec2Model ----
(***************************************************************************)
(* Job orchestration of yt_downloader: the in-memory JobManager            *)
(* (domain/jobs.py), the download worker run_download with its yt-dlp      *)
(* progress hook (services/downloader.py) and the HTTP handlers that drive *)
(* them (api/http.py).                                                     *)
(*                                                                         *)
(* Execution contexts.  The asyncio event loop runs one callback at a      *)
(* time: every action named after a handler or a worker step is one such   *)
(* callback, from one suspension point to the next.  asyncio.Lock.acquire  *)
(* does not suspend when the lock is free, and no JobManager method awaits *)
(* while holding the lock, so "async with self._lock" never suspends.      *)
(* The blocking ydl.download call runs on a thread (asyncio.to_thread);    *)
(* the progress hook runs on that thread and writes the job's fields one   *)
(* attribute at a time, so every write of the hook is a step of its own    *)
(* that the event loop may observe.  The hook hands its broadcasts to the  *)
(* loop with run_coroutine_threadsafe: each becomes a task of its own that *)
(* runs later, with the message built when the hook ran.                   *)
(*                                                                         *)
(* An observer is one WebSocket connection (api/ws.py).  send_json hands   *)
(* the message to the connection when it is called and may then suspend    *)
(* its caller, so messages reach an observer in the order of the calls.    *)
(***************************************************************************)
EXTENDS Integers, Sequences, FiniteSets, TLC

\* ------------------------------------------------------------------ bounds
MaxJobs == 1
MaxBytes == 1
MaxFrag == 2
MaxObservers == 2
MaxClients == 1
MaxInflight == 2

\* Ids create_job hands out (uuid4: always fresh), and one id it never returns.
JobIds == 1..MaxJobs
UnknownId == 0
AllIds == {UnknownId} \cup JobIds
\* The WebSocket connections; Clients are those that connect on their own
\* after the job was created, NoObserver is "no connection".
Observers == 1..MaxObservers
Clients == 1..MaxClients
NoObserver == 0

\* ---------------------------------------------------------- Optional[int]
None == <<>>
Some(n) == <<n>>
OptBytes == {None} \cup {Some(n) : n \in 0..MaxBytes}
\* Python truthiness of an Optional[int]: None and 0 are falsy.
Truthy(x) == x # None /\ x[1] # 0

\* --------------------------------------------------------------- percents
\* A float percent is kept as the exact fraction <<num, den>> in lowest terms.
RECURSIVE GCD(_, _)
GCD(a, b) == IF b = 0 THEN a ELSE GCD(b, a % b)
Abs(n) == IF n < 0 THEN -n ELSE n
Frac(n, d) == LET g == GCD(Abs(n), d) IN <<n \div g, d \div g>>
Zero == <<0, 1>>
Hundred == <<100, 1>>
Less(p, q) == p[1] * q[2] < q[1] * p[2]
Leq(p, q) == p[1] * q[2] <= q[1] * p[2]
PMax(p, q) == IF Less(p, q) THEN q ELSE p
PMin(p, q) == IF Less(q, p) THEN q ELSE p

\* _safe_percent without the clamp to [0, 100].
safe_percent_unclamped(downloaded, total) ==
    IF ~Truthy(total) \/ total[1] <= 0
    THEN Zero
    ELSE Frac(downloaded * 100, total[1])

\* _safe_percent(downloaded, total)
safe_percent(downloaded, total) ==
    IF ~Truthy(total) \/ total[1] <= 0
    THEN Zero
    ELSE PMax(Zero, PMin(Hundred, Frac(downloaded * 100, total[1])))

\* ------------------------------------------------------------------- jobs
QUEUED == "queued"
RUNNING == "running"
SUCCEEDED == "succeeded"
FAILED == "failed"
CANCELLED == "cancelled"
JobStatus == {QUEUED, RUNNING, SUCCEEDED, FAILED, CANCELLED}
Terminal == {SUCCEEDED, FAILED, CANCELLED}

NoPath == "None"
Filenames == {"video.mp4"}
NoError == "None"
Errors == {"DownloadError"}

\* Mutant of NewJob: the record starts in RUNNING.
StartedJob ==
    [status |-> RUNNING, progress_percent |-> Zero, bytes_downloaded |-> 0,
     total_bytes |-> None, file_path |-> NoPath, error |-> NoError]

\* Job(id, url, format_id, target_dir) with the dataclass defaults.
NewJob ==
    [status |-> QUEUED, progress_percent |-> Zero, bytes_downloaded |-> 0,
     total_bytes |-> None, file_path |-> NoPath, error |-> NoError]

VARIABLES
    jobs,         \* JobManager._jobs: id -> Job
    tasks,        \* JobManager._tasks: id -> the worker's asyncio.Task
    subscribers,  \* JobManager._subscribers: id -> set of observers
    pc,           \* where each job's run_download coroutine is suspended
    pending,      \* observers the worker's current broadcast has yet to send to
    thread,       \* where each job's download thread (_blocking) is
    hk,           \* locals of the hook call in progress on the thread
    bq,           \* broadcasts the hooks handed to the loop, oldest first
    conn,         \* each observer's ws_job_progress handler and its remote end
    seen,         \* the progressPercent of the last event sent to each observer
    resp,         \* the response of the request handled by the last step
    awaiting,     \* the observer whose send_json each worker is suspended in
    rcv,          \* what each observer has been delivered so far
    out,          \* the event the last step delivered, and to whom
    lock,         \* JobManager._lock: the tasks inside "async with self._lock"
    reported,     \* what each download's engine has reported to the hook
    call,         \* the call of a helper of run_download that is followed
    loop,         \* the workers whose callback occupies the event loop
    files,        \* the files that exist in the download directory
    outfile       \* each worker's final_outfile, the engine's "outtmpl"

vars == <<jobs, tasks, subscribers, pc, pending, thread, hk, bq, conn, seen,
          resp, awaiting, rcv, out, lock, reported, call,
          loop, files, outfile>>

NoResp == [op |-> "none", id |-> UnknownId, ok |-> FALSE]
NoHook == [total |-> None, percent |-> Zero]
\* A connection: the handler's position, the job id of its path, and the
\* remote end: "ok" reads what it is sent, "gone" has disconnected (a send
\* raises), "stuck" has stopped reading (a send never returns); snapshot is
\* the status the initial snapshot carried ("none": no snapshot was sent).
NoConn == [state |-> "new", job |-> UnknownId, remote |-> "ok", snapshot |-> "none"]
Absent == [state |-> "absent", job |-> UnknownId, remote |-> "ok", snapshot |-> "none"]
NoRcv == [snapshot |-> FALSE, ends |-> 0, final |-> FALSE]
NoMsg == [to |-> NoObserver, type |-> "none"]

\* asyncio.Task: pending until the coroutine returns, raises or is cancelled;
\* must_cancel is set by Task.cancel() and honoured at the task's next step.
NewTask == [state |-> "pending", must_cancel |-> FALSE]
task_done(t) == t.state # "pending"

Empty == [i \in {} |-> 0]
NoCall == [fn |-> "none"]

\* JobManager.__init__: the three maps are empty; no worker, no connection.
Init ==
    /\ jobs = Empty
    /\ tasks = Empty
    /\ subscribers = Empty
    /\ pc = Empty
    /\ pending = Empty
    /\ thread = Empty
    /\ hk = Empty
    /\ bq = <<>>
    /\ conn = [ws \in Observers |-> IF ws \in Clients THEN NoConn ELSE Absent]
    /\ seen = [ws \in Observers |-> None]
    /\ resp = NoResp
    /\ awaiting = Empty
    /\ rcv = [ws \in Observers |-> NoRcv]
    /\ out = NoMsg
    /\ lock = {}
    /\ reported = Empty
    /\ loop = {}
    /\ files = {}
    /\ outfile = Empty
    /\ call = NoCall

\* The event loop is between two callbacks: no worker is inside a blocking
\* call made from its coroutine.
LoopIdle == loop = {}

\* A job's id reaches clients only in the response of post_download, and the
\* worker's first step was queued on the loop by create_task before that
\* response: a request that names an existing job is handled after the worker
\* has started.  UnknownId stands for every id create_job never returned.
Requestable(id) ==
    \/ id = UnknownId
    \/ id \in DOMAIN jobs /\ pc[id] # "created"

\* ------------------------------------------------------------ JobManager
\* self._subscribers.setdefault(job_id, set())
setdefault(subs, id) == IF id \in DOMAIN subs THEN subs ELSE (id :> {}) @@ subs

\* self._subscribers.get(job_id, set())
subscribers_of(id) == IF id \in DOMAIN subscribers THEN subscribers[id] ELSE {}

\* JobManager.subscribe
subscribe(subs, id, ws) == [setdefault(subs, id) EXCEPT ![id] = @ \cup {ws}]

\* Mutant of unsubscribe: the observer is left in the set.
unsubscribe_kept(subs, id, ws) == subs

\* JobManager.unsubscribe
unsubscribe(subs, id, ws) ==
    IF id \in DOMAIN subs /\ ws \in subs[id]
    THEN [subs EXCEPT ![id] = @ \ {ws}]
    ELSE subs

\* The remote end of ws reads what it is sent.
Reads(ws) == conn[ws].remote = "ok"

\* ws.send_json(message) never returns: the remote end has stopped reading.
Stuck(ws) == ws # NoObserver /\ conn[ws].remote = "stuck"

\* ws.send_json(message): the observer is sent the message, unless its
\* remote end no longer reads; seen keeps the progressPercent of the last
\* message that carried one.
send_json(ws, percent) ==
    IF percent = None \/ ~Reads(ws) THEN seen ELSE [seen EXCEPT ![ws] = percent]

\* The types of the events that end a job's stream of progress events.
EndTypes == {"complete", "error"}

\* What ws has been delivered once it is sent an event of this type.
received(ws, type) ==
    IF ~Reads(ws) THEN rcv
    ELSE [rcv EXCEPT ![ws].snapshot = @ \/ type = "snapshot",
                     ![ws].ends = IF type \in EndTypes /\ @ < 2 THEN @ + 1 ELSE @,
                     ![ws].final = @ \/ type = "final"]

\* The delivery made by a send_json of an event of this type to ws.
delivery(ws, type) ==
    IF Reads(ws) THEN [to |-> ws, type |-> type] ELSE NoMsg

\* One call of ws.send_json with an event of this type and progressPercent.
Send(ws, type, percent) ==
    /\ seen' = send_json(ws, percent)
    /\ rcv' = received(ws, type)
    /\ out' = delivery(ws, type)

\* A step that calls no send_json.
NoSend == seen' = seen /\ rcv' = rcv /\ out' = NoMsg

\* ------------------------------------------------------ JobManager._lock
\* Mutant of release: the section is left with the lock still held.
release_forgotten(l, task) == l

\* asyncio.Lock.acquire on a free lock returns without suspending.
acquire(l, task) == l \cup {task}

\* asyncio.Lock.release, at the end of the "async with" block.
release(l, task) == l \ {task}

\* "async with self._lock:" around a body that has no await (every one of
\* JobManager's): the task enters when the lock is free (it would wait
\* otherwise), runs the body and leaves, all within one step of the loop.
WithLock(task) ==
    /\ lock = {}
    /\ lock' = release(acquire(lock, task), task)

\* Mutant of cancel_ok: the task's completion is not looked at.
cancel_ok_ignoring_done(id) == id \in DOMAIN tasks

\* Mutant of cancel_ok: only a finished task is refused, a missing one is not.
cancel_ok_unless_done(id) == ~(id \in DOMAIN tasks /\ task_done(tasks[id]))

\* JobManager.cancel: "if task and not task.done()"
cancel_ok(id) == id \in DOMAIN tasks /\ ~task_done(tasks[id])

\* JobManager.cancel: task.cancel() on a pending task requests cancellation.
cancel_tasks(id) ==
    IF cancel_ok(id) THEN [tasks EXCEPT ![id].must_cancel = TRUE] ELSE tasks

\* POST /api/jobs/{job_id}/cancel
post_cancel(id) ==
    /\ Requestable(id)
    /\ tasks' = cancel_tasks(id)
    /\ resp' = [op |-> "cancel", id |-> id, ok |-> cancel_ok(id)]
    /\ NoSend
    /\ UNCHANGED <<jobs, subscribers, pc, pending, thread, hk, bq, conn, awaiting>>
    /\ WithLock("post_cancel")
    /\ UNCHANGED reported
    /\ UNCHANGED call
    /\ LoopIdle
    /\ UNCHANGED <<loop, files, outfile>>

\* ---------------------------------------------------- the output file
\* A file's path: its directory, its stem (the name and the disambiguators
\* " (i)" appended to it so far) and its suffix.
OutDir == <<"home", "Downloads", "ytdl">>
Video == [parent |-> OutDir, stem |-> <<"video">>, suffix |-> ".mp4"]

\* parent / f"{stem} ({i}){suffix}"
candidate(p, i) == [p EXCEPT !.stem = Append(@, i)]

\* Lines 78-83: "while True" from i, the first candidate that does not exist.
RECURSIVE first_free(_, _, _)
first_free(p, existing, i) ==
    IF candidate(p, i) \notin existing
    THEN candidate(p, i)
    ELSE first_free(p, existing, i + 1)

\* Mutant of unique_path: the counter starts at 2.
unique_path_from_two(p, existing) ==
    IF p \notin existing THEN p ELSE first_free(p, existing, 2)

\* _unique_path(p), existing being the files for which exists() is true.
unique_path(p, existing) ==
    IF p \notin existing THEN p ELSE first_free(p, existing, 1)

\* No path: the worker has not computed its final_outfile.
NoOutfile == [parent |-> <<>>, stem |-> <<>>, suffix |-> ""]

\* ------------------------------------------------------ request validation
\* A path is the sequence of its components below the root.  Settings: the
\* defaults of allowed_base_dir and default_download_dir, in the home
\* directory <<"home">>.
allowed_base_dir == <<"home", "Downloads">>
default_download_dir == <<"home", "Downloads", "ytdl">>

\* Path.resolve(): "." is dropped, ".." drops the component before it.
RECURSIVE resolve(_)
resolve(path) ==
    IF path = <<>>
    THEN <<>>
    ELSE LET parent == resolve(SubSeq(path, 1, Len(path) - 1))
             name == path[Len(path)]
         IN IF name = "." THEN parent
            ELSE IF name = ".."
                 THEN SubSeq(parent, 1, Len(parent) - 1)
                 ELSE Append(parent, name)

\* target.relative_to(base) does not raise: base is target or above it.
relative_to(target, base) ==
    Len(base) <= Len(target) /\ SubSeq(target, 1, Len(base)) = base

\* Mutant of resolve_target_dir: the target is not compared with the base.
resolve_target_dir_unchecked(path_str) ==
    [raised |-> FALSE,
     dir |-> IF path_str = None THEN resolve(default_download_dir)
             ELSE resolve(path_str[1])]

\* resolve_target_dir(path_str, settings): the resolved directory, or the
\* ValueError for a target outside the base (the directory is then made on
\* the file system, which is not part of the registry).
resolve_target_dir(path_str) ==
    LET base == resolve(allowed_base_dir)
        target == IF path_str = None THEN resolve(default_download_dir)
                  ELSE resolve(path_str[1])
    IN IF relative_to(target, base)
       THEN [raised |-> FALSE, dir |-> target]
       ELSE [raised |-> TRUE, dir |-> <<>>]

\* urllib.parse.urlparse(url): the scheme and the network location.
urlparse(url) ==
    CASE url = "https://www.youtube.com/watch?v=l0X3dJiVx1M"
           -> [scheme |-> "https", netloc |-> "www.youtube.com"]
      [] url = "ftp://example.com/video.mp4"
           -> [scheme |-> "ftp", netloc |-> "example.com"]
      [] url = "https:///watch"
           -> [scheme |-> "https", netloc |-> ""]
      [] OTHER -> [scheme |-> "", netloc |-> ""]

\* _validate_url(url) does not raise: http or https, and a host.
validate_url(url) ==
    LET parsed == urlparse(url)
    IN ~(parsed.scheme \notin {"http", "https"} \/ parsed.netloc = "")

\* The test suite's URL, and the request bodies the model follows.
GoodUrl == "https://www.youtube.com/watch?v=l0X3dJiVx1M"
Urls == {GoodUrl, "ftp://example.com/video.mp4", "https:///watch"}
TargetDirs ==
    {None, Some(<<"home", "Downloads", "music">>),
     Some(<<"home", "Downloads", "..", "Documents">>), Some(<<"tmp">>)}

\* POST /api/probe: probe_video validates the URL before it asks the engine;
\* ValueError is answered 400, any other failure 500.
post_probe(url) ==
    /\ \E engine_ok \in BOOLEAN :
         resp' = [op |-> "probe", id |-> UnknownId, url |-> url,
                  ok |-> validate_url(url) /\ engine_ok,
                  status |-> IF ~validate_url(url) THEN 400
                             ELSE IF engine_ok THEN 200 ELSE 500]
    /\ NoSend
    /\ UNCHANGED <<jobs, tasks, subscribers, pc, pending, thread, hk, bq, conn,
                   awaiting, lock, reported>>
    /\ UNCHANGED call
    /\ UNCHANGED <<loop, files, outfile>>

\* Mutant of create_job: the job map is started afresh with the new job.
create_job_replacing(id) ==
    /\ id \notin DOMAIN jobs \cup {UnknownId}
    /\ jobs' = (id :> NewJob)
    /\ subscribers' = setdefault(subscribers, id)

\* JobManager.create_job: id stands for uuid.uuid4().hex, an id that no
\* earlier call returned.
create_job(id) ==
    /\ id \notin DOMAIN jobs \cup {UnknownId}
    /\ jobs' = (id :> NewJob) @@ jobs
    /\ subscribers' = setdefault(subscribers, id)

\* asyncio.create_task(run_download(job, manager)) and JobManager.set_task:
\* the worker exists, its first step is yet to run.
set_task(id) ==
    /\ tasks' = (id :> NewTask) @@ tasks
    /\ pc' = (id :> "created") @@ pc
    /\ pending' = (id :> {}) @@ pending
    /\ awaiting' = (id :> NoObserver) @@ awaiting
    /\ thread' = (id :> "none") @@ thread
    /\ hk' = (id :> NoHook) @@ hk
    /\ reported' = (id :> "nothing") @@ reported
    /\ outfile' = (id :> NoOutfile) @@ outfile

\* POST /api/download: resolve_target_dir, answered 400 when it raises
\* ValueError; else create_job, create_task and set_task, all in one loop
\* callback (the task's first step runs later).
post_download(id, url, targetDir) ==
    /\ IF resolve_target_dir(targetDir).raised
       THEN /\ resp' = [op |-> "download", id |-> UnknownId, ok |-> FALSE,
                       status |-> 400, url |-> url, targetDir |-> targetDir]
            /\ UNCHANGED <<jobs, subscribers, tasks, pc, pending, awaiting,
                           thread, hk, reported, lock, outfile>>
       ELSE /\ create_job(id)
            /\ set_task(id)
            /\ WithLock("post_download")
            /\ resp' = [op |-> "download", id |-> id, ok |-> TRUE,
                       status |-> 200, url |-> url, targetDir |-> targetDir]
    /\ NoSend
    /\ UNCHANGED <<bq, conn>>
    /\ UNCHANGED call
    /\ LoopIdle
    /\ UNCHANGED <<loop, files>>

\* ----------------------------------------------------------- run_download
\* The worker is suspended inside manager.broadcast, in a send_json.
InBroadcast(j) == pc[j] \in {"bcast_status", "bcast_complete", "bcast_error"}

\* The "type" of the message of each of the worker's broadcasts.
worker_type(kind) ==
    IF kind = "bcast_status" THEN "status"
    ELSE IF kind = "bcast_complete" THEN "complete"
    ELSE "error"

\* The progressPercent of the message of the worker's broadcast: the status
\* event carries none, complete carries 100.0, error the recorded percent
\* (no one writes the job while the worker is in one of these broadcasts).
worker_percent(j, kind, job) ==
    IF kind = "bcast_status" THEN None
    ELSE IF kind = "bcast_complete" THEN Hundred
    ELSE job.progress_percent

\* What the worker does once broadcast(kind) has returned.
\*   status: await asyncio.to_thread(_blocking) starts the download thread;
\*   complete, error: run_download returns and the task is done.
after_broadcast(j, kind) ==
    IF kind = "bcast_status"
    THEN /\ pc' = [pc EXCEPT ![j] = "to_thread"]
         /\ thread' = [thread EXCEPT ![j] = "running"]
         /\ tasks' = tasks
    ELSE /\ pc' = [pc EXCEPT ![j] = "done"]
         /\ tasks' = [tasks EXCEPT ![j].state = "finished"]
         /\ thread' = thread

\* Mutant of broadcast: the loop over the snapshot ends after its first send.
broadcast_first_only(j, kind, job) ==
    LET snapshot == subscribers_of(j) IN
    /\ WithLock("run_download")
    /\ IF snapshot = {}
       THEN /\ after_broadcast(j, kind)
            /\ NoSend
            /\ UNCHANGED <<pending, awaiting>>
       ELSE \E ws \in snapshot :
            /\ Send(ws, worker_type(kind), worker_percent(j, kind, job))
            /\ pending' = [pending EXCEPT ![j] = {}]
            /\ awaiting' = [awaiting EXCEPT ![j] = ws]
            /\ pc' = [pc EXCEPT ![j] = kind]
            /\ UNCHANGED <<tasks, thread>>

\* await manager.broadcast(job.id, ...) called by the worker: the subscriber
\* snapshot is taken at once; with no subscriber the call returns without
\* suspending, else the first send_json is called and the worker suspends.
broadcast(j, kind, job) ==
    LET snapshot == subscribers_of(j) IN
    /\ WithLock("run_download")
    /\ IF snapshot = {}
       THEN /\ after_broadcast(j, kind)
            /\ NoSend
            /\ UNCHANGED <<pending, awaiting>>
       ELSE \E ws \in snapshot :
            /\ Send(ws, worker_type(kind), worker_percent(j, kind, job))
            /\ pending' = [pending EXCEPT ![j] = snapshot \ {ws}]
            /\ awaiting' = [awaiting EXCEPT ![j] = ws]
            /\ pc' = [pc EXCEPT ![j] = kind]
            /\ UNCHANGED <<tasks, thread>>

\* The entry action of run_download (lines 263-268).
entry_job(job) ==
    [job EXCEPT !.status = RUNNING, !.progress_percent = Zero,
                !.bytes_downloaded = 0, !.total_bytes = None,
                !.error = NoError, !.file_path = NoPath]

\* The worker's first step begins: run_download calls _compose_format and
\* _compute_final_outfile from its coroutine (lines 248-249), and each asks
\* the engine with a blocking extract_info: until they return the event
\* loop runs nothing else, while the threads of other downloads go on.
WorkerEnter(j) ==
    /\ j \in DOMAIN jobs
    /\ pc[j] = "created"
    /\ LoopIdle
    /\ loop' = {j}
    /\ resp' = NoResp
    /\ NoSend
    /\ UNCHANGED <<jobs, tasks, subscribers, pc, pending, thread, hk, bq, conn,
                   awaiting, lock, reported, call, files, outfile>>

\* The rest of the worker's first step: _compose_format has returned (it
\* never raises), _compute_final_outfile returns the rendered path made
\* unique among the files that exist now, or raises when the engine's
\* extract_info does (the exception leaves run_download, outside its try);
\* then the entry action and the status broadcast.
WorkerStart(j) ==
    /\ j \in DOMAIN jobs
    /\ pc[j] = "created"
    /\ loop = {j}
    /\ loop' = {}
    /\ resp' = NoResp
    /\ \E rendered \in BOOLEAN :
         IF rendered
         THEN /\ jobs' = [jobs EXCEPT ![j] = entry_job(@)]
              /\ outfile' = [outfile EXCEPT ![j] = unique_path(Video, files)]
              /\ broadcast(j, "bcast_status", entry_job(jobs[j]))
              /\ UNCHANGED <<subscribers, hk, bq, conn>>
         ELSE /\ pc' = [pc EXCEPT ![j] = "done"]
              /\ tasks' = [tasks EXCEPT ![j].state = "exception"]
              /\ NoSend
              /\ UNCHANGED <<jobs, subscribers, pending, thread, hk, bq, conn,
                             awaiting, lock, outfile>>
    /\ UNCHANGED files
    /\ UNCHANGED reported
    /\ UNCHANGED call

\* Mutant of WorkerSend: the broadcast goes on with the observers subscribed
\* now instead of those of its snapshot.
WorkerSend_rereading(j) ==
    /\ j \in DOMAIN jobs
    /\ InBroadcast(j)
    /\ ~tasks[j].must_cancel
    /\ ~Stuck(awaiting[j])
    /\ resp' = NoResp
    /\ IF (pending[j] \cup subscribers_of(j)) \ {awaiting[j]} = {}
       THEN /\ after_broadcast(j, pc[j])
            /\ awaiting' = [awaiting EXCEPT ![j] = NoObserver]
            /\ NoSend
            /\ UNCHANGED pending
       ELSE \E ws \in (pending[j] \cup subscribers_of(j)) \ {awaiting[j]} :
            /\ Send(ws, worker_type(pc[j]), worker_percent(j, pc[j], jobs[j]))
            /\ pending' = [pending EXCEPT ![j] = @ \ {ws}]
            /\ awaiting' = [awaiting EXCEPT ![j] = ws]
            /\ UNCHANGED <<pc, tasks, thread>>
    /\ UNCHANGED <<jobs, subscribers, hk, bq, conn>>
    /\ UNCHANGED <<lock, reported>>
    /\ UNCHANGED call
    /\ LoopIdle
    /\ UNCHANGED <<loop, files, outfile>>

\* The send_json the worker's broadcast is suspended in returns (or raises an
\* Exception, which broadcast swallows): the next send_json is called, or
\* broadcast returns after the last one.  A send_json to an observer that
\* has stopped reading does not return.
WorkerSend(j) ==
    /\ j \in DOMAIN jobs
    /\ InBroadcast(j)
    /\ ~tasks[j].must_cancel
    /\ ~Stuck(awaiting[j])
    /\ resp' = NoResp
    /\ IF pending[j] = {}
       THEN /\ after_broadcast(j, pc[j])
            /\ awaiting' = [awaiting EXCEPT ![j] = NoObserver]
            /\ NoSend
            /\ UNCHANGED pending
       ELSE \E ws \in pending[j] :
            /\ Send(ws, worker_type(pc[j]), worker_percent(j, pc[j], jobs[j]))
            /\ pending' = [pending EXCEPT ![j] = @ \ {ws}]
            /\ awaiting' = [awaiting EXCEPT ![j] = ws]
            /\ UNCHANGED <<pc, tasks, thread>>
    /\ UNCHANGED <<jobs, subscribers, hk, bq, conn>>
    /\ UNCHANGED <<lock, reported>>
    /\ UNCHANGED call
    /\ LoopIdle
    /\ UNCHANGED <<loop, files, outfile>>

\* Mutant of finalize_job: the status is set, the percent is left as it is.
finalize_job_status_only(job) ==
    IF job.status = RUNNING THEN [job EXCEPT !.status = SUCCEEDED] ELSE job

\* Lines 279-281: "if job.status == JobStatus.RUNNING" after the download.
finalize_job(job) ==
    IF job.status = RUNNING
    THEN [job EXCEPT !.status = SUCCEEDED, !.progress_percent = Hundred]
    ELSE job

\* Lines 292-294: except Exception as ex.
fail_job(job, ex) == [job EXCEPT !.status = FAILED, !.error = ex]

\* The loop runs its callbacks in the order they were handed over: the
\* broadcasts the hook scheduled before the download ended have taken their
\* first step when the worker is woken by the download's end.
hook_broadcasts_started(j) ==
    \A k \in 1..Len(bq) : bq[k].job = j => bq[k].started

\* Mutant of WorkerResume: the complete event is broadcast after every
\* download that returned, whatever the status.
WorkerResume_completing_always(j) ==
    /\ j \in DOMAIN jobs
    /\ pc[j] = "to_thread"
    /\ ~tasks[j].must_cancel
    /\ hook_broadcasts_started(j)
    /\ resp' = NoResp
    /\ IF thread[j] = "returned"
       THEN /\ jobs' = [jobs EXCEPT ![j] = finalize_job(@)]
            /\ broadcast(j, "bcast_complete", finalize_job(jobs[j]))
       ELSE /\ thread[j] = "raised"
            /\ \E ex \in Errors :
                 /\ jobs' = [jobs EXCEPT ![j] = fail_job(@, ex)]
                 /\ broadcast(j, "bcast_error", fail_job(jobs[j], ex))
    /\ UNCHANGED <<subscribers, hk, bq, conn>>
    /\ UNCHANGED reported
    /\ UNCHANGED call
    /\ LoopIdle
    /\ UNCHANGED <<loop, files, outfile>>

\* The worker resumes from await asyncio.to_thread(_blocking): the download
\* returned (lines 278-291) or raised (lines 292-298).
WorkerResume(j) ==
    /\ j \in DOMAIN jobs
    /\ pc[j] = "to_thread"
    /\ ~tasks[j].must_cancel
    /\ hook_broadcasts_started(j)
    /\ resp' = NoResp
    /\ IF thread[j] = "returned"
       THEN /\ jobs' = [jobs EXCEPT ![j] = finalize_job(@)]
            /\ IF jobs[j].status = RUNNING
               THEN broadcast(j, "bcast_complete", finalize_job(jobs[j]))
               ELSE /\ after_broadcast(j, "bcast_complete")
                    /\ NoSend
                    /\ UNCHANGED <<pending, awaiting, lock>>
       ELSE /\ thread[j] = "raised"
            /\ \E ex \in Errors :
                 /\ jobs' = [jobs EXCEPT ![j] = fail_job(@, ex)]
                 /\ broadcast(j, "bcast_error", fail_job(jobs[j], ex))
    /\ UNCHANGED <<subscribers, hk, bq, conn>>
    /\ UNCHANGED reported
    /\ UNCHANGED call
    /\ LoopIdle
    /\ UNCHANGED <<loop, files, outfile>>

\* Task.cancel() was called while the worker was suspended: its await raises
\* CancelledError, a BaseException that "except Exception" does not catch,
\* so run_download is left at once and the task ends cancelled.  A thread
\* started by to_thread keeps running.
WorkerCancelled(j) ==
    /\ j \in DOMAIN jobs
    /\ tasks[j].state = "pending"
    /\ tasks[j].must_cancel
    /\ pc[j] \in {"bcast_status", "to_thread", "bcast_complete", "bcast_error"}
    /\ pc' = [pc EXCEPT ![j] = "done"]
    /\ tasks' = [tasks EXCEPT ![j].state = "cancelled"]
    /\ pending' = [pending EXCEPT ![j] = {}]
    /\ awaiting' = [awaiting EXCEPT ![j] = NoObserver]
    /\ resp' = NoResp
    /\ NoSend
    /\ UNCHANGED <<jobs, subscribers, thread, hk, bq, conn>>
    /\ UNCHANGED <<lock, reported>>
    /\ UNCHANGED call
    /\ LoopIdle
    /\ UNCHANGED <<loop, files, outfile>>

\* ------------------------------------------------ the progress hook (thread)
\* total_val = d.get("total_bytes") or d.get("total_bytes_estimate")
total_val(total_bytes, total_bytes_estimate) ==
    IF Truthy(total_bytes) THEN total_bytes ELSE total_bytes_estimate

\* The hook taking the bytes whenever the total is known and positive, and
\* the fragments only otherwise.
hook_percent_bytes_first(downloaded, total, fragment_index, fragment_count) ==
    IF Truthy(total) /\ total[1] > 0
    THEN PMax(Zero, PMin(safe_percent(downloaded, total), Hundred))
    ELSE IF fragment_count > 1
         THEN PMax(Zero, PMin(safe_percent(fragment_index, Some(fragment_count)), Hundred))
         ELSE Zero

\* Lines 200-204: the fragment ratio when fragment_count > 1, else the bytes.
hook_percent(downloaded, total, fragment_index, fragment_count) ==
    IF fragment_count > 1
    THEN PMax(Zero, PMin(safe_percent(fragment_index, Some(fragment_count)), Hundred))
    ELSE PMax(Zero, PMin(safe_percent(downloaded, total), Hundred))

\* Lines 207-209: "Monotonic overall".
monotonic(percent, recorded) == IF Less(percent, recorded) THEN recorded ELSE percent

\* asyncio.run_coroutine_threadsafe(manager.broadcast(job.id, message), loop):
\* the message is built now, the broadcast runs on the loop later.
scheduled(j, type, percent) ==
    Append(bq, [job |-> j, type |-> type, percent |-> percent,
                started |-> FALSE, todo |-> {}, cur |-> NoObserver])

\* The engine is inside ydl.download, between two hook calls (a hook call is
\* taken up only while fewer than MaxInflight broadcasts wait on the loop).
InDownload(j) == j \in DOMAIN jobs /\ thread[j] = "running"

\* hook(d), d["status"] == "downloading", up to line 198: the arguments are
\* read and job.bytes_downloaded is written.
HookDownloading(j) ==
    /\ InDownload(j)
    /\ Len(bq) < MaxInflight
    /\ \E downloaded \in 0..MaxBytes, tb \in OptBytes, te \in OptBytes,
          fragment_index \in 0..MaxFrag, fragment_count \in 0..MaxFrag :
         LET total == total_val(tb, te) IN
         /\ jobs' = [jobs EXCEPT ![j].bytes_downloaded = downloaded]
         /\ hk' = [hk EXCEPT ![j] =
                     [total |-> total,
                      percent |-> hook_percent(downloaded, total,
                                               fragment_index, fragment_count)]]
    /\ thread' = [thread EXCEPT ![j] = "dl_total"]
    /\ resp' = NoResp
    /\ NoSend
    /\ UNCHANGED <<tasks, subscribers, pc, pending, bq, conn, awaiting>>
    /\ reported' = [reported EXCEPT ![j] = "other"]
    /\ UNCHANGED lock
    /\ UNCHANGED call
    /\ UNCHANGED <<loop, files, outfile>>

\* Line 199: job.total_bytes = total
HookTotal(j) ==
    /\ j \in DOMAIN jobs
    /\ thread[j] = "dl_total"
    /\ jobs' = [jobs EXCEPT ![j].total_bytes = hk[j].total]
    /\ hk' = [hk EXCEPT ![j].total = None]
    /\ thread' = [thread EXCEPT ![j] = "dl_percent"]
    /\ resp' = NoResp
    /\ NoSend
    /\ UNCHANGED <<tasks, subscribers, pc, pending, bq, conn, awaiting>>
    /\ UNCHANGED <<lock, reported>>
    /\ UNCHANGED call
    /\ UNCHANGED <<loop, files, outfile>>

\* Lines 207-225: job.progress_percent = percent, never below the recorded
\* one, and the progress broadcast is handed to the loop.
HookPercent(j) ==
    /\ j \in DOMAIN jobs
    /\ thread[j] = "dl_percent"
    /\ Len(bq) < MaxInflight
    /\ LET percent == monotonic(hk[j].percent, jobs[j].progress_percent) IN
         /\ jobs' = [jobs EXCEPT ![j].progress_percent = percent]
         /\ bq' = scheduled(j, "progress", percent)
    /\ hk' = [hk EXCEPT ![j] = NoHook]
    /\ thread' = [thread EXCEPT ![j] = "running"]
    /\ resp' = NoResp
    /\ NoSend
    /\ UNCHANGED <<tasks, subscribers, pc, pending, conn, awaiting>>
    /\ UNCHANGED <<lock, reported>>
    /\ UNCHANGED call
    /\ UNCHANGED <<loop, files, outfile>>

\* The engine's reports so far, after it reports 'finished' for filename:
\* "finished" when this is its first report and it names a file.
next_report(so_far, filename) ==
    IF so_far = "nothing" /\ filename # NoPath THEN "finished" ELSE "other"

\* hook(d), d["status"] == "finished", lines 228-230: job.file_path is
\* written when d carries a filename.
HookFinished(j) ==
    /\ InDownload(j)
    /\ Len(bq) < MaxInflight
    /\ \E filename \in Filenames \cup {NoPath} :
         /\ jobs' = IF filename # NoPath
                    THEN [jobs EXCEPT ![j].file_path = filename]
                    ELSE jobs
         /\ reported' = [reported EXCEPT ![j] = next_report(@, filename)]
    /\ thread' = [thread EXCEPT ![j] = "fin_progress"]
    /\ resp' = NoResp
    /\ NoSend
    /\ UNCHANGED <<tasks, subscribers, pc, pending, hk, bq, conn, awaiting>>
    /\ UNCHANGED lock
    /\ UNCHANGED call
    /\ files' = files \cup {outfile[j]}
    /\ UNCHANGED <<loop, outfile>>

\* Line 232: job.progress_percent = 100.0
HookFinProgress(j) ==
    /\ j \in DOMAIN jobs
    /\ thread[j] = "fin_progress"
    /\ jobs' = [jobs EXCEPT ![j].progress_percent = Hundred]
    /\ thread' = [thread EXCEPT ![j] = "fin_status"]
    /\ resp' = NoResp
    /\ NoSend
    /\ UNCHANGED <<tasks, subscribers, pc, pending, hk, bq, conn, awaiting>>
    /\ UNCHANGED <<lock, reported>>
    /\ UNCHANGED call
    /\ UNCHANGED <<loop, files, outfile>>

\* Lines 233-246: job.status = JobStatus.SUCCEEDED, and the complete
\* broadcast is handed to the loop.
HookFinStatus(j) ==
    /\ j \in DOMAIN jobs
    /\ thread[j] = "fin_status"
    /\ Len(bq) < MaxInflight
    /\ jobs' = [jobs EXCEPT ![j].status = SUCCEEDED]
    /\ bq' = scheduled(j, "complete", Hundred)
    /\ thread' = [thread EXCEPT ![j] = "running"]
    /\ resp' = NoResp
    /\ NoSend
    /\ UNCHANGED <<tasks, subscribers, pc, pending, hk, conn, awaiting>>
    /\ UNCHANGED <<lock, reported>>
    /\ UNCHANGED call
    /\ UNCHANGED <<loop, files, outfile>>

\* ydl.download returns: _blocking ends normally.
ThreadReturn(j) ==
    /\ InDownload(j)
    /\ thread' = [thread EXCEPT ![j] = "returned"]
    /\ resp' = NoResp
    /\ NoSend
    /\ UNCHANGED <<jobs, tasks, subscribers, pc, pending, hk, bq, conn, awaiting>>
    /\ UNCHANGED <<lock, reported>>
    /\ UNCHANGED call
    /\ files' = files \cup {outfile[j]}
    /\ UNCHANGED <<loop, outfile>>

\* ydl.download raises ("Will raise on failure"): _blocking ends with it.
ThreadRaise(j) ==
    /\ InDownload(j)
    /\ thread' = [thread EXCEPT ![j] = "raised"]
    /\ resp' = NoResp
    /\ NoSend
    /\ UNCHANGED <<jobs, tasks, subscribers, pc, pending, hk, bq, conn, awaiting>>
    /\ UNCHANGED <<lock, reported>>
    /\ UNCHANGED call
    /\ UNCHANGED <<loop, files, outfile>>

\* ------------------------------------- broadcasts handed over by the hook
Remove(q, i) == SubSeq(q, 1, i - 1) \o SubSeq(q, i + 1, Len(q))

\* bq with broadcast i having called send_json on ws, the observers in rest
\* still to come: after its last send_json the broadcast only returns.
advanced(i, ws, rest) ==
    IF rest = {}
    THEN Remove(bq, i)
    ELSE [bq EXCEPT ![i].started = TRUE, ![i].todo = rest, ![i].cur = ws]

\* Mutant of BroadcastStep: an observer whose send_json raises is taken out of
\* the job's subscriber set.
BroadcastStep_pruning(i) ==
    /\ i \in 1..Len(bq)
    /\ \A k \in 1..(i - 1) : bq[k].started
    /\ ~Stuck(bq[i].cur)
    /\ LET b == bq[i]
           targets == IF b.started THEN b.todo ELSE subscribers_of(b.job)
       IN IF targets = {}
          THEN /\ bq' = Remove(bq, i)
               /\ NoSend
               /\ UNCHANGED subscribers
          ELSE \E ws \in targets :
               /\ Send(ws, b.type, b.percent)
               /\ bq' = advanced(i, ws, targets \ {ws})
               /\ subscribers' = IF conn[ws].remote = "gone"
                                 THEN unsubscribe(subscribers, b.job, ws)
                                 ELSE subscribers
    /\ resp' = NoResp
    /\ UNCHANGED <<jobs, tasks, pc, pending, thread, hk, conn, awaiting>>
    /\ IF bq[i].started THEN UNCHANGED lock ELSE WithLock("broadcast")
    /\ UNCHANGED reported
    /\ UNCHANGED call
    /\ LoopIdle
    /\ UNCHANGED <<loop, files, outfile>>

\* A step of the task that runs manager.broadcast for the hook.  Tasks start
\* in the order the hooks handed them over; a task's first step takes the
\* subscriber snapshot and calls the first send_json, each later step calls
\* the next one, once the send_json it is suspended in has returned.
BroadcastStep(i) ==
    /\ i \in 1..Len(bq)
    /\ \A k \in 1..(i - 1) : bq[k].started
    /\ ~Stuck(bq[i].cur)
    /\ LET b == bq[i]
           targets == IF b.started THEN b.todo ELSE subscribers_of(b.job)
       IN IF targets = {}
          THEN /\ bq' = Remove(bq, i)
               /\ NoSend
          ELSE \E ws \in targets :
               /\ Send(ws, b.type, b.percent)
               /\ bq' = advanced(i, ws, targets \ {ws})
    /\ resp' = NoResp
    /\ UNCHANGED <<jobs, tasks, subscribers, pc, pending, thread, hk, conn,
                   awaiting>>
    /\ IF bq[i].started THEN UNCHANGED lock ELSE WithLock("broadcast")
    /\ UNCHANGED reported
    /\ UNCHANGED call
    /\ LoopIdle
    /\ UNCHANGED <<loop, files, outfile>>

\* ------------------------------------------------------- GET /api/jobs/{id}
\* Mutant of Job_snapshot: filePath is never filled in.
Job_snapshot_without_path(job) ==
    [status |-> job.status, progressPercent |-> job.progress_percent,
     bytesDownloaded |-> job.bytes_downloaded, totalBytes |-> job.total_bytes,
     filePath |-> None, error |-> job.error]

\* JobManager.get_job: self._jobs.get(job_id)
get_job(job_id) == IF job_id \in DOMAIN jobs THEN Some(jobs[job_id]) ELSE None

\* The status of the answer of GET /api/jobs/{job_id}: 404 when get_job
\* finds no job.
get_job_status(job_id) == IF get_job(job_id) = None THEN 404 ELSE 200

\* Job.snapshot(), which get_job answers with for a job it finds (it reads
\* the job under the lock and changes nothing): filePath is
\* "str(self.file_path) if self.file_path else None".
Job_snapshot(job) ==
    [status |-> job.status, progressPercent |-> job.progress_percent,
     bytesDownloaded |-> job.bytes_downloaded, totalBytes |-> job.total_bytes,
     filePath |-> IF job.file_path # NoPath THEN Some(job.file_path) ELSE None,
     error |-> job.error]

\* -------------------------------------------------------- ws_job_progress
\* "status": job.status of the initial snapshot.
snapshot_status(id) == IF id \in DOMAIN jobs THEN jobs[id].status ELSE "none"

\* Mutant of initial_snapshot: the handler goes to sleep without sending it.
initial_snapshot_skipped(ws, id) == NoSend

\* Lines 44-58: "Send initial snapshot if available".
initial_snapshot(ws, id) ==
    IF id \in DOMAIN jobs
    THEN Send(ws, "snapshot", jobs[id].progress_percent)
    ELSE NoSend

\* The handler up to its first sleep: accept, subscribe, and the initial
\* snapshot ("status" with the job's fields) when the job exists.
WsConnect(ws, id) ==
    /\ conn[ws].state = "new"
    /\ Requestable(id)
    /\ subscribers' = subscribe(subscribers, id, ws)
    /\ initial_snapshot(ws, id)
    /\ conn' = [conn EXCEPT ![ws].state = "open", ![ws].job = id,
                             ![ws].snapshot = snapshot_status(id)]
    /\ resp' = NoResp
    /\ UNCHANGED <<jobs, tasks, pc, pending, thread, hk, bq, awaiting>>
    /\ WithLock("ws_job_progress")
    /\ UNCHANGED reported
    /\ UNCHANGED call
    /\ LoopIdle
    /\ UNCHANGED <<loop, files, outfile>>

\* The remote end of an open connection goes away: it disconnects, or it
\* stops reading.  The handler never receives, so nothing tells it.
RemoteFails(ws) ==
    /\ conn[ws].state = "open"
    /\ conn[ws].remote = "ok"
    /\ \E how \in {"gone", "stuck"} : conn' = [conn EXCEPT ![ws].remote = how]
    /\ resp' = NoResp
    /\ NoSend
    /\ UNCHANGED <<jobs, tasks, subscribers, pc, pending, thread, hk, bq,
                   awaiting>>
    /\ UNCHANGED <<lock, reported>>
    /\ UNCHANGED call
    /\ UNCHANGED <<loop, files, outfile>>

\* One round of the polling loop that leaves it: the job is unknown (break,
\* then unsubscribe in "finally"), or it is terminal and the "final" event
\* is sent; when the remote end has disconnected the send raises and
\* "finally" unsubscribes at once.  A round that finds the job not terminal
\* changes nothing.
WsPoll(ws) ==
    /\ conn[ws].state = "open"
    /\ LET id == conn[ws].job IN
       IF id \notin DOMAIN jobs
       THEN /\ subscribers' = unsubscribe(subscribers, id, ws)
            /\ conn' = [conn EXCEPT ![ws].state = "closed"]
            /\ NoSend
       ELSE /\ jobs[id].status \in Terminal
            /\ Send(ws, "final", jobs[id].progress_percent)
            /\ IF conn[ws].remote = "gone"
               THEN /\ subscribers' = unsubscribe(subscribers, id, ws)
                    /\ conn' = [conn EXCEPT ![ws].state = "closed"]
               ELSE /\ subscribers' = subscribers
                    /\ conn' = [conn EXCEPT ![ws].state = "closing"]
    /\ resp' = NoResp
    /\ UNCHANGED <<jobs, tasks, pc, pending, thread, hk, bq, awaiting>>
    /\ WithLock("ws_job_progress")
    /\ UNCHANGED reported
    /\ UNCHANGED call
    /\ LoopIdle
    /\ UNCHANGED <<loop, files, outfile>>

\* The send of "final" returned: break, then unsubscribe in "finally".
WsClose(ws) ==
    /\ conn[ws].state = "closing"
    /\ ~Stuck(ws)
    /\ subscribers' = unsubscribe(subscribers, conn[ws].job, ws)
    /\ conn' = [conn EXCEPT ![ws].state = "closed"]
    /\ resp' = NoResp
    /\ NoSend
    /\ UNCHANGED <<jobs, tasks, pc, pending, thread, hk, bq, awaiting>>
    /\ WithLock("ws_job_progress")
    /\ UNCHANGED reported
    /\ UNCHANGED call
    /\ LoopIdle
    /\ UNCHANGED <<loop, files, outfile>>

\* ------------------------------------------------------------ the system
Next ==
    \/ \E id \in JobIds : post_download(id, GoodUrl, None)
    \/ \E id \in AllIds : post_cancel(id)
    \/ \E j \in JobIds : WorkerEnter(j)
    \/ \E j \in JobIds : WorkerStart(j)
    \/ \E j \in JobIds : WorkerSend(j)
    \/ \E j \in JobIds : WorkerResume(j)
    \/ \E j \in JobIds : WorkerCancelled(j)
    \/ \E j \in JobIds : HookDownloading(j)
    \/ \E j \in JobIds : HookTotal(j)
    \/ \E j \in JobIds : HookPercent(j)
    \/ \E j \in JobIds : HookFinished(j)
    \/ \E j \in JobIds : HookFinProgress(j)
    \/ \E j \in JobIds : HookFinStatus(j)
    \/ \E j \in JobIds : ThreadReturn(j)
    \/ \E j \in JobIds : ThreadRaise(j)
    \/ \E i \in 1..MaxInflight : BroadcastStep(i)
    \/ \E ws \in Observers, id \in AllIds : WsConnect(ws, id)
    \/ \E ws \in Observers : RemoteFails(ws)
    \/ \E ws \in Observers : WsPoll(ws)
    \/ \E ws \in Observers : WsClose(ws)

Spec == Init /\ [][Next]_vars

\* ------------------------------------------------- fan-out to several observers
\* A download in progress that every observer watches: the job was created,
\* its worker has started the download thread, and each observer connected
\* and was sent the initial snapshot (0.0) before the engine's first callback.
\* The engine reports each file it has finished and then returns or raises
\* (its "downloading" callbacks, which hand over broadcasts in the same way,
\* are followed in Spec).
Watched == CHOOSE id \in JobIds : TRUE

FanoutInit ==
    /\ jobs = (Watched :> entry_job(NewJob))
    /\ tasks = (Watched :> NewTask)
    /\ subscribers = (Watched :> Observers)
    /\ pc = (Watched :> "to_thread")
    /\ pending = (Watched :> {})
    /\ awaiting = (Watched :> NoObserver)
    /\ thread = (Watched :> "running")
    /\ hk = (Watched :> NoHook)
    /\ bq = <<>>
    /\ conn = [ws \in Observers |->
                 [state |-> "open", job |-> Watched, remote |-> "ok",
                  snapshot |-> RUNNING]]
    /\ seen = [ws \in Observers |-> Zero]
    /\ rcv = [ws \in Observers |-> [NoRcv EXCEPT !.snapshot = TRUE]]
    /\ resp = NoResp
    /\ out = NoMsg
    /\ lock = {}
    /\ reported = (Watched :> "nothing")
    /\ loop = {}
    /\ files = {}
    /\ outfile = (Watched :> Video)
    /\ call = NoCall

\* The steps of the download's end, of the broadcasts and of the connections;
\* no further request arrives.
FanoutNext ==
    \/ \E j \in JobIds : WorkerSend(j)
    \/ \E j \in JobIds : WorkerResume(j)
    \/ \E j \in JobIds : HookFinished(j)
    \/ \E j \in JobIds : HookFinProgress(j)
    \/ \E j \in JobIds : HookFinStatus(j)
    \/ \E j \in JobIds : ThreadReturn(j)
    \/ \E j \in JobIds : ThreadRaise(j)
    \/ \E i \in 1..MaxInflight : BroadcastStep(i)
    \/ \E ws \in Observers : RemoteFails(ws)
    \/ \E ws \in Observers : WsPoll(ws)
    \/ \E ws \in Observers : WsClose(ws)

FanoutSpec == FanoutInit /\ [][FanoutNext]_vars

\* ---------------------------------------- an observer that subscribes late
\* The observer that is not yet connected when the download is under way.
Latecomer == MaxObservers

\* As FanoutInit, with the Latecomer's connection still to be made.
LateInit ==
    /\ jobs = (Watched :> entry_job(NewJob))
    /\ tasks = (Watched :> NewTask)
    /\ subscribers = (Watched :> Observers \ {Latecomer})
    /\ pc = (Watched :> "to_thread")
    /\ pending = (Watched :> {})
    /\ awaiting = (Watched :> NoObserver)
    /\ thread = (Watched :> "running")
    /\ hk = (Watched :> NoHook)
    /\ bq = <<>>
    /\ conn = [ws \in Observers |->
                 IF ws = Latecomer
                 THEN NoConn
                 ELSE [state |-> "open", job |-> Watched, remote |-> "ok",
                       snapshot |-> RUNNING]]
    /\ seen = [ws \in Observers |-> IF ws = Latecomer THEN None ELSE Zero]
    /\ rcv = [ws \in Observers |->
                IF ws = Latecomer THEN NoRcv ELSE [NoRcv EXCEPT !.snapshot = TRUE]]
    /\ resp = NoResp
    /\ out = NoMsg
    /\ lock = {}
    /\ reported = (Watched :> "nothing")
    /\ loop = {}
    /\ files = {}
    /\ outfile = (Watched :> Video)
    /\ call = NoCall

\* The steps of FanoutNext, and the Latecomer's connection at any time.
LateNext ==
    \/ \E j \in JobIds : WorkerSend(j)
    \/ \E j \in JobIds : WorkerResume(j)
    \/ \E j \in JobIds : HookFinished(j)
    \/ \E j \in JobIds : HookFinProgress(j)
    \/ \E j \in JobIds : HookFinStatus(j)
    \/ \E j \in JobIds : ThreadReturn(j)
    \/ \E j \in JobIds : ThreadRaise(j)
    \/ \E i \in 1..MaxInflight : BroadcastStep(i)
    \/ \E ws \in Observers : RemoteFails(ws)
    \/ \E ws \in Observers : WsPoll(ws)
    \/ \E ws \in Observers : WsClose(ws)
    \/ WsConnect(Latecomer, Watched)

LateSpec == LateInit /\ [][LateNext]_vars

\* ------------------------------------------------------ the request handlers
\* Requests of every kind and with every body arrive, for up to MaxRequests
\* jobs; the engine reports nothing and each download returns or raises.
MaxRequests == 2
RequestIds == 1..MaxRequests

RequestNext ==
    \/ \E id \in RequestIds, url \in Urls, targetDir \in TargetDirs :
         post_download(id, url, targetDir)
    \/ \E url \in Urls : post_probe(url)
    \/ \E id \in {UnknownId} \cup RequestIds : post_cancel(id)
    \/ \E j \in RequestIds : WorkerEnter(j)
    \/ \E j \in RequestIds : WorkerStart(j)
    \/ \E j \in RequestIds : WorkerSend(j)
    \/ \E j \in RequestIds : WorkerResume(j)
    \/ \E j \in RequestIds : WorkerCancelled(j)
    \/ \E j \in RequestIds : ThreadReturn(j)
    \/ \E j \in RequestIds : ThreadRaise(j)
    \/ \E ws \in Observers, id \in {UnknownId} \cup RequestIds : WsConnect(ws, id)
    \/ \E ws \in Observers : WsPoll(ws)
    \/ \E ws \in Observers : WsClose(ws)

RequestSpec == Init /\ [][RequestNext]_vars

\* ------------------------------------------------ helpers of run_download
MaxFormats == 2   \* the formats of a probe result
MaxSuffix == 3    \* the highest disambiguator among the existing files
MaxArg == 3       \* the largest byte count handed to the percent helpers

\* A selector is the sequence of its tokens, "+" and "/" being tokens of
\* their own; a format id is a selector of one token.
FormatIds == {"18", "137"}
Selectors ==
    {<<"18">>, <<"137">>, <<"140">>, <<"18", "+", "bestaudio", "/", "best">>,
     <<"18", "/", "worst">>, <<"137", "+", "140">>}

\* fmt.get("vcodec"), fmt.get("acodec"): absent, "none", or a codec.
VCodecs == {None, Some("none"), Some("avc1")}
ACodecs == {None, Some("none"), Some("mp4a")}
Formats == [format_id : FormatIds, vcodec : VCodecs, acodec : ACodecs]

\* What YoutubeDL(...).extract_info(url, download=False) does when it is
\* called: it raises, or it returns info with a list of formats.
Engines ==
    {[raised |-> TRUE, formats |-> <<>>]} \cup
    {[raised |-> FALSE, formats |-> f] :
       f \in UNION {[1..n -> Formats] : n \in 0..MaxFormats}}

\* Mutant of has_combinator: only "+" is looked for.
has_plus(user_selector) ==
    \E i \in 1..Len(user_selector) : user_selector[i] = "+"

\* Line 135: "+" in user_selector or "/" in user_selector
has_combinator(user_selector) ==
    \E i \in 1..Len(user_selector) : user_selector[i] \in {"+", "/"}

\* f"{user_selector}+bestaudio/best"
with_bestaudio(user_selector) == user_selector \o <<"+", "bestaudio", "/", "best">>

\* "codec and codec != 'none'"
real_codec(codec) == codec # None /\ codec[1] # "" /\ codec[1] # "none"

\* Mutant of compose_format: a failed probe is not caught.
compose_format_propagating(user_selector, engine) ==
    IF has_combinator(user_selector)
    THEN [result |-> user_selector, probed |-> FALSE, raised |-> FALSE]
    ELSE IF engine.raised
    THEN [result |-> <<>>, probed |-> TRUE, raised |-> TRUE]
    ELSE [result |-> user_selector, probed |-> TRUE, raised |-> FALSE]

\* _compose_format(url, user_selector) with the engine answering as engine:
\* the selector returned, whether extract_info was called, and whether an
\* exception left the function.
compose_format(user_selector, engine) ==
    IF has_combinator(user_selector)
    THEN [result |-> user_selector, probed |-> FALSE, raised |-> FALSE]
    ELSE IF engine.raised
    THEN [result |-> with_bestaudio(user_selector), probed |-> TRUE,
          raised |-> FALSE]
    ELSE LET formats == engine.formats
             found == {i \in 1..Len(formats) :
                         <<formats[i].format_id>> = user_selector}
         IN IF found = {}
            THEN [result |-> user_selector, probed |-> TRUE, raised |-> FALSE]
            ELSE LET fmt == formats[CHOOSE i \in found : \A k \in found : i <= k]
                 IN IF real_codec(fmt.vcodec) /\ real_codec(fmt.acodec)
                    THEN [result |-> user_selector, probed |-> TRUE,
                          raised |-> FALSE]
                    ELSE [result |-> with_bestaudio(user_selector),
                          probed |-> TRUE, raised |-> FALSE]

\* The paths asked for, and the files that may exist.
Paths == {Video, candidate(Video, 1)}
Files ==
    Paths \cup {candidate(Video, i) : i \in 2..MaxSuffix}
          \cup {candidate(candidate(Video, 1), 1),
                [Video EXCEPT !.parent = <<"home", "Downloads">>]}

\* The calls followed: the arguments, and the outcome once it has returned.
ComposeCalls ==
    {[fn |-> "compose_format", user_selector |-> u, engine |-> e,
      done |-> FALSE, result |-> <<>>, probed |-> FALSE, raised |-> FALSE] :
       u \in Selectors, e \in Engines}
UniqueCalls ==
    {[fn |-> "unique_path", p |-> p, existing |-> x, done |-> FALSE,
      result |-> p] : p \in Paths, x \in SUBSET Files}

\* _safe_percent(downloaded, total) with any integers, None included.
SafePercentCalls ==
    {[fn |-> "safe_percent", downloaded |-> d, total |-> t, done |-> FALSE,
      result |-> Zero] :
       d \in -MaxArg..MaxArg,
       t \in {None} \cup {Some(n) : n \in -MaxArg..MaxArg}}
\* One 'downloading' callback of the hook: the dictionary d of the engine and
\* the percent recorded in the job when the callback starts.
OptArgs == {None} \cup {Some(n) : n \in 0..MaxArg}
Recorded == {Zero, Frac(100, 2), Hundred}
HookPercentCalls ==
    {[fn |-> "hook_percent", downloaded_bytes |-> d, total_bytes |-> tb,
      total_bytes_estimate |-> te, fragment_index |-> fi,
      fragment_count |-> fc, recorded |-> r, done |-> FALSE, result |-> r] :
       d \in -1..MaxArg, tb \in OptArgs, te \in OptArgs,
       fi \in 0..MaxFrag, fc \in 0..MaxFrag, r \in Recorded}

\* A call of a helper with any of the arguments, in a fresh process.
HelperInit ==
    /\ jobs = Empty
    /\ tasks = Empty
    /\ subscribers = Empty
    /\ pc = Empty
    /\ pending = Empty
    /\ thread = Empty
    /\ hk = Empty
    /\ bq = <<>>
    /\ conn = [ws \in Observers |-> IF ws \in Clients THEN NoConn ELSE Absent]
    /\ seen = [ws \in Observers |-> None]
    /\ resp = NoResp
    /\ awaiting = Empty
    /\ rcv = [ws \in Observers |-> NoRcv]
    /\ out = NoMsg
    /\ lock = {}
    /\ reported = Empty
    /\ loop = {}
    /\ files = {}
    /\ outfile = Empty
    /\ call \in ComposeCalls \cup UniqueCalls \cup SafePercentCalls
                \cup HookPercentCalls

\* _compose_format runs and returns.
CallComposeFormat ==
    /\ call.fn = "compose_format"
    /\ ~call.done
    /\ LET r == compose_format(call.user_selector, call.engine)
       IN call' = [call EXCEPT !.done = TRUE, !.result = r.result,
                               !.probed = r.probed, !.raised = r.raised]
    /\ UNCHANGED <<jobs, tasks, subscribers, pc, pending, thread, hk, bq, conn,
                   seen, resp, awaiting, rcv, out, lock, reported, loop,
                   files, outfile>>

\* _unique_path runs and returns.
CallUniquePath ==
    /\ call.fn = "unique_path"
    /\ ~call.done
    /\ call' = [call EXCEPT !.done = TRUE,
                            !.result = unique_path(call.p, call.existing)]
    /\ UNCHANGED <<jobs, tasks, subscribers, pc, pending, thread, hk, bq, conn,
                   seen, resp, awaiting, rcv, out, lock, reported, loop,
                   files, outfile>>

\* _safe_percent runs and returns.
CallSafePercent ==
    /\ call.fn = "safe_percent"
    /\ ~call.done
    /\ call' = [call EXCEPT !.done = TRUE,
                            !.result = safe_percent(call.downloaded, call.total)]
    /\ UNCHANGED <<jobs, tasks, subscribers, pc, pending, thread, hk, bq, conn,
                   seen, resp, awaiting, rcv, out, lock, reported, loop,
                   files, outfile>>

\* The 'downloading' branch of the hook up to "job.progress_percent = percent":
\* the result is the percent it stores in the job.
CallHookPercent ==
    /\ call.fn = "hook_percent"
    /\ ~call.done
    /\ LET total == total_val(call.total_bytes, call.total_bytes_estimate)
           percent == hook_percent(call.downloaded_bytes, total,
                                   call.fragment_index, call.fragment_count)
       IN call' = [call EXCEPT !.done = TRUE,
                               !.result = monotonic(percent, call.recorded)]
    /\ UNCHANGED <<jobs, tasks, subscribers, pc, pending, thread, hk, bq, conn,
                   seen, resp, awaiting, rcv, out, lock, reported, loop,
                   files, outfile>>

HelperNext ==
    CallComposeFormat \/ CallUniquePath \/ CallSafePercent \/ CallHookPercent

HelperSpec == HelperInit /\ [][HelperNext]_vars

\* ----------------------------------------------------------------- claims
\* C1: a job's status only moves forward along QUEUED -> RUNNING -> terminal,
\* and a terminal status never changes again, whatever the interleaving of
\* the worker, the hook, the download's end and cancel requests.
C1_StatusOnlyMovesForward ==
    [][\A j \in DOMAIN jobs :
         \/ jobs'[j].status = jobs[j].status
         \/ jobs[j].status = QUEUED /\ jobs'[j].status = RUNNING
         \/ jobs[j].status = RUNNING /\ jobs'[j].status \in Terminal]_vars

\* Neither the worker nor the download thread of job j will take another step.
Quiescent(j) ==
    /\ task_done(tasks[j])
    /\ thread[j] \in {"none", "returned", "raised"}

\* C2: every created job eventually reaches a terminal state, also when
\* filename rendering raises before the download starts or the worker task
\* is cancelled.  Stated on the finite run: once the worker task is done and
\* no download thread is left, nothing writes the job any more, so the job
\* must be terminal by then.
C2_FinishedWorkerLeftJobTerminal ==
    \A j \in DOMAIN jobs : Quiescent(j) => jobs[j].status \in Terminal

\* C3: until the job is terminal, the progressPercent a reader observes never
\* decreases, the reader being a snapshot query (the job's field) or one
\* progress stream (the events sent to one observer).
C3_ObservedProgressNeverDecreases ==
    [][/\ \A j \in DOMAIN jobs :
            jobs[j].status \notin Terminal
              => Leq(jobs[j].progress_percent, jobs'[j].progress_percent)
       /\ \A ws \in Observers :
            (/\ conn[ws].state = "open"
             /\ conn[ws].job \in DOMAIN jobs
             /\ jobs[conn[ws].job].status \notin Terminal
             /\ seen[ws] # None)
              => Leq(seen[ws], seen'[ws])]_vars

C5_ExactlyOneOfPathAndError ==
    \A j \in DOMAIN jobs :
        /\ jobs[j].status = SUCCEEDED
             => jobs[j].file_path # NoPath /\ jobs[j].error = NoError
        /\ jobs[j].status = FAILED
             => jobs[j].error # NoError /\ jobs[j].file_path = NoPath

\* C6: a job has a file path only if it is SUCCEEDED and an error message
\* only if it is FAILED.
C6_PathOnlyOnSuccessErrorOnlyOnFailure ==
    \A j \in DOMAIN jobs :
        /\ jobs[j].file_path # NoPath => jobs[j].status = SUCCEEDED
        /\ jobs[j].error # NoError => jobs[j].status = FAILED

\* C7: once a job's status is terminal, none of its fields changes.
C7_TerminalJobIsFrozen ==
    [][\A j \in DOMAIN jobs :
         jobs[j].status \in Terminal => jobs'[j] = jobs[j]]_vars

\* The step just taken handled POST /api/jobs/{id}/cancel for job id.
Cancelled(id) == resp'.op = "cancel" /\ resp'.id = id

C9_CancelOfRunningJobIsAccepted ==
    [][\A id \in DOMAIN jobs :
         Cancelled(id) /\ jobs[id].status = RUNNING /\ id \in DOMAIN tasks
           => resp'.ok /\ tasks'[id].must_cancel]_vars

\* C10: cancel(id) for an id create_job never returned answers ok: false and
\* leaves the job map, the task map and the subscriber map unchanged.
C10_CancelOfUnknownIdChangesNothing ==
    [][\A id \in AllIds \ DOMAIN jobs :
         Cancelled(id)
           => /\ ~resp'.ok
              /\ jobs' = jobs
              /\ tasks' = tasks
              /\ subscribers' = subscribers]_vars

\* C10's case: an unknown id was refused while a worker task was pending and
\* an observer was subscribed to it.
C10_Witness ==
    /\ resp = [op |-> "cancel", id |-> UnknownId, ok |-> FALSE]
    /\ \E j \in DOMAIN tasks : ~task_done(tasks[j])
    /\ UnknownId \in DOMAIN subscribers

\* C11: after a cancel request was accepted and interrupted the worker (its
\* task ended cancelled), the job gets status CANCELLED.  Stated on the
\* finite run: once that task has ended and no download thread is left,
\* nothing writes the job any more, so it must be CANCELLED by then.
C11_InterruptedWorkerLeftJobCancelled ==
    \A j \in DOMAIN jobs :
        tasks[j].state = "cancelled" /\ Quiescent(j)
          => jobs[j].status = CANCELLED

\* The step in which the worker of job j meets a failure of the engine:
\* filename rendering raises in its first step, or it is woken by the
\* download having raised.
EngineFailed(j) ==
    \/ pc[j] = "created" /\ tasks'[j].state = "exception"
    \/ /\ pc[j] = "to_thread"
       /\ thread[j] = "raised"
       /\ ~tasks[j].must_cancel
       /\ pc'[j] # pc[j]

\* C12: when the engine fails for a job, the job becomes FAILED with an
\* error message, an "error" event with the last recorded percent is
\* broadcast to the job's subscribers, and the download is not started again.
C12_EngineFailureFailsJob ==
    [][\A j \in DOMAIN jobs :
         EngineFailed(j)
           => /\ jobs'[j].status = FAILED
              /\ jobs'[j].error # NoError
              /\ subscribers_of(j) # {}
                   => /\ pc'[j] = "bcast_error"
                      /\ out' # NoMsg
                           => /\ out'.type = "error"
                              /\ seen'[out'.to] = jobs[j].progress_percent
              /\ thread'[j] = thread[j]]_vars

\* A step of a broadcast after its call: a send_json returned or raised and
\* the loop went on, for a broadcast of the hook or of the worker.
SendStep ==
    \/ bq' # bq /\ Len(bq') <= Len(bq)
    \/ \E j \in DOMAIN jobs :
         /\ InBroadcast(j)
         /\ tasks'[j].state # "cancelled"
         /\ pending'[j] # pending[j] \/ pc'[j] # pc[j]

\* The download of job j raised without a file having been reported finished:
\* the worker's "error" broadcast is the job's only complete/error event, its
\* snapshot holds every observer, and it has returned.
ErrorBroadcastReturned(j) ==
    /\ pc[j] = "done"
    /\ jobs[j].status = FAILED
    /\ jobs[j].progress_percent # Hundred

\* C13: when delivery to some observers raises, the broadcast still returns
\* without raising (the worker's task ends finished), the message has been
\* delivered exactly once to each of the other observers, and no step of a
\* broadcast changes the job.
C13_FailedDeliveryIsSwallowed ==
    /\ [](\A j \in DOMAIN jobs :
            ErrorBroadcastReturned(j)
              => /\ tasks[j].state = "finished"
                 /\ \A ws \in Observers : Reads(ws) => rcv[ws].ends = 1)
    /\ [][SendStep => jobs' = jobs]_vars

\* C13's case: the "error" broadcast returned although the send to one
\* observer raised, and another observer was delivered the event.
C13_Witness ==
    \E j \in DOMAIN jobs :
        /\ ErrorBroadcastReturned(j)
        /\ \E ws \in Observers : conn[ws].remote = "gone" /\ rcv[ws].ends = 0
        /\ \E ws \in Observers : Reads(ws) /\ rcv[ws].ends = 1

\* C14: a broadcast is never held up by one observer: the worker suspended
\* in a broadcast can always take its next step (the next send, or the
\* return to run_download), and so can every broadcast of the hook that has
\* observers left to send to.  An observer that has stopped reading never
\* lets its send_json return, so a broadcast waiting for it waits for ever.
C14_BroadcastIsNeverHeldUp ==
    /\ \A j \in DOMAIN jobs : InBroadcast(j) => ~Stuck(awaiting[j])
    /\ \A i \in 1..Len(bq) :
         bq[i].started /\ bq[i].todo # {} => ~Stuck(bq[i].cur)

\* The events of job j that observer ws is still to be sent by broadcasts
\* that have taken their snapshot: those of the hook's broadcasts, oldest
\* first, then the one of the worker's broadcast (the worker broadcasts only
\* after its download has ended, when the hook's broadcasts have started).
Owed(i, ws) == bq[i].started /\ ws \in bq[i].todo

\* C15: an observer that stays subscribed is delivered the events of its job
\* in the order in which they were produced.  A broadcast that has sent an
\* event to ws (it is suspended in that send) while an older broadcast of the
\* same job still has ws to send to has delivered the two in swapped order.
C15_EventsReachAnObserverInOrder ==
    /\ \A i \in 1..Len(bq) : \A k \in 1..(i - 1) : \A ws \in Observers :
         (/\ bq[k].job = bq[i].job
          /\ bq[i].started /\ bq[i].cur = ws /\ Reads(ws)
          /\ conn[ws].state = "open")
           => ~Owed(k, ws)
    /\ \A j \in DOMAIN jobs : \A k \in 1..Len(bq) : \A ws \in Observers :
         (/\ bq[k].job = j
          /\ InBroadcast(j) /\ awaiting[j] = ws /\ Reads(ws)
          /\ conn[ws].state = "open")
           => ~Owed(k, ws)

\* The types of the events a broadcast delivers.
BroadcastTypes == {"status", "progress", "complete", "error"}

\* C16: on a connection to an existing job, no event of a broadcast is
\* delivered before the initial snapshot: whenever a step delivers a
\* broadcast's event to an observer, that observer has been delivered the
\* snapshot, and the snapshot itself is delivered to an observer that has
\* been delivered nothing yet.
C16_SnapshotComesFirst ==
    [][\A ws \in Observers :
         (out'.to = ws /\ conn'[ws].job \in DOMAIN jobs)
           => IF out'.type = "snapshot"
              THEN rcv[ws] = NoRcv /\ seen[ws] = None
              ELSE rcv[ws].snapshot]_vars

\* C16's case: an observer that was delivered the snapshot is delivered an
\* event of a broadcast.
C16_Witness ==
    \E ws \in Observers :
        /\ out.to = ws
        /\ out.type \in BroadcastTypes
        /\ rcv[ws].snapshot
        /\ conn[ws].job \in DOMAIN jobs

\* C17: a connection opened before its job was terminal and open until then
\* is delivered exactly one "complete" or "error" event, and before the
\* "final" event: when such an observer has been delivered "final", it has
\* been delivered one complete/error event, no more and no less.
C17_OneEndEventBeforeFinal ==
    \A ws \in Observers :
        rcv[ws].final /\ conn[ws].snapshot \in {QUEUED, RUNNING}
          => rcv[ws].ends = 1

\* C18: a connection of a job that has become terminal is delivered one
\* "final" event, sent when the job's status is terminal; the handler then
\* ends, and "final" is the last event delivered on the connection: nothing,
\* a second "final" included, is delivered to an observer after its "final".
C18_FinalIsTheLastEvent ==
    [][\A ws \in Observers :
         /\ (out'.to = ws /\ out'.type = "final")
              => /\ jobs[conn[ws].job].status \in Terminal
                 /\ conn'[ws].state \in {"closing", "closed"}
         /\ rcv[ws].final => out'.to # ws]_vars

\* C19: the subscription of a connection whose client has disconnected does
\* not stay for ever.  Stated on the finite run: when the client is gone and
\* neither the worker, the download thread nor a broadcast of its job has a
\* step left, the observer has been unsubscribed, or the handler still has
\* the step that unsubscribes it (its poll finds the job terminal).
C19_DisconnectedObserverIsRemoved ==
    \A ws \in Observers :
        (/\ conn[ws].remote = "gone"
         /\ conn[ws].job \in DOMAIN jobs
         /\ Quiescent(conn[ws].job)
         /\ bq = <<>>)
          => \/ ws \notin subscribers_of(conn[ws].job)
             \/ jobs[conn[ws].job].status \in Terminal

\* This step is the first step of the hook's broadcast i: it takes the
\* subscriber snapshot and calls the first send_json.
HookBroadcastInvoked(i) ==
    /\ i \in 1..Len(bq)
    /\ ~bq[i].started
    /\ \A k \in 1..(i - 1) : bq[k].started
    /\ \/ Len(bq') = Len(bq) /\ bq'[i].started
       \/ Len(bq') < Len(bq) /\ bq' = Remove(bq, i)

\* This step is the one in which the worker of job j calls broadcast.
WorkerBroadcastInvoked(j) ==
    /\ pc[j] = "to_thread"
    /\ pc'[j] # pc[j]
    /\ tasks'[j].state # "cancelled"
    /\ jobs[j].status = RUNNING \/ thread[j] = "raised"

\* unsubscribe has returned for the connection of ws.
Unsubscribed(ws) == conn[ws].state = "closed"

\* C20: a broadcast invoked after unsubscribe(job, o) has returned delivers
\* nothing to o, at its first send or later (its snapshot does not hold o,
\* and a broadcast under way sends only to observers of its snapshot), while
\* its snapshot holds every observer still subscribed to the job.
C20_NoDeliveryAfterUnsubscribe ==
    [][/\ \A i \in 1..Len(bq) :
            /\ HookBroadcastInvoked(i)
                 => LET snapshot == IF Len(bq') = Len(bq)
                                    THEN bq'[i].todo \cup {bq'[i].cur}
                                    ELSE {ws \in Observers :
                                            out'.to = ws \/ ~Reads(ws)}
                                         \cap subscribers_of(bq[i].job)
                    IN /\ snapshot = subscribers_of(bq[i].job)
                       /\ \A o \in Observers :
                            Unsubscribed(o) => o \notin snapshot /\ out'.to # o
            /\ (bq[i].started /\ Len(bq') = Len(bq) /\ bq'[i] # bq[i])
                 => /\ bq'[i].todo \subseteq bq[i].todo
                    /\ bq'[i].cur \in bq[i].todo
       /\ \A j \in DOMAIN jobs :
            /\ WorkerBroadcastInvoked(j)
                 => LET snapshot == IF pc'[j] = "done" THEN {}
                                    ELSE pending'[j] \cup {awaiting'[j]}
                    IN /\ snapshot = subscribers_of(j)
                       /\ \A o \in Observers :
                            Unsubscribed(o) => o \notin snapshot /\ out'.to # o
            /\ (InBroadcast(j) /\ pending'[j] # pending[j])
                 => /\ pending'[j] \subseteq pending[j]
                    /\ awaiting'[j] \in pending[j] \cup {NoObserver}]_vars

\* C20's case: after one observer was unsubscribed (it had been delivered no
\* complete/error event), the worker invoked its "error" broadcast, and the
\* observer still subscribed was delivered the event as the only one.
C20_Witness ==
    \E j \in DOMAIN jobs : \E o \in Observers : \E ws \in Observers \ {o} :
        /\ Unsubscribed(o) /\ Reads(o) /\ rcv[o].ends = 0
        /\ pc[j] = "bcast_error"
        /\ awaiting[j] = ws /\ pending[j] = {}
        /\ out = [to |-> ws, type |-> "error"]

\* ---------------------------------------------------------------- C21
\* The target directories of TargetDirs that resolve outside the base.
OutsideDirs == {Some(<<"home", "Downloads", "..", "Documents">>), Some(<<"tmp">>)}

\* C21: a download request whose target directory resolves outside the
\* allowed base directory is answered 400 and leaves the registry as it
\* was: no job record, no worker task and no subscriber set is created.
C21_OutsideTargetDirIsRejected ==
    [][resp'.op = "download" /\ resp'.targetDir \in OutsideDirs
         => /\ resp'.status = 400
            /\ jobs' = jobs
            /\ tasks' = tasks
            /\ pc' = pc
            /\ subscribers' = subscribers]_vars

\* A request for a directory outside the base was refused while the
\* registry held a job and its subscriber set.
C21_Witness ==
    /\ resp.op = "download"
    /\ resp.targetDir \in OutsideDirs
    /\ resp.status = 400
    /\ DOMAIN jobs # {}
    /\ DOMAIN jobs = DOMAIN tasks
    /\ DOMAIN jobs = DOMAIN subscribers

\* ---------------------------------------------------------------- C22
\* The URLs of Urls that are not an http or https URL with a host.
MalformedUrls == {"ftp://example.com/video.mp4", "https:///watch"}

\* C22: a download request with a malformed URL is refused before any job
\* is created: the step that answers it leaves the job map, the tasks and
\* the subscriber sets as they were.
C22_MalformedUrlIsRejected ==
    [][resp'.op = "download" /\ resp'.url \in MalformedUrls
         => /\ ~resp'.ok
            /\ jobs' = jobs
            /\ tasks' = tasks
            /\ subscribers' = subscribers]_vars

\* ---------------------------------------------------------------- C23
\* C23: for every selector with a combinator token, "+" or "/", format
\* composition returns the selector as it is and does not call the
\* engine's probe.
C23_CompoundSelectorPassesThrough ==
    call.fn = "compose_format" /\ call.done
      /\ (\E i \in 1..Len(call.user_selector) :
             call.user_selector[i] = "+" \/ call.user_selector[i] = "/")
    => call.result = call.user_selector /\ ~call.probed /\ ~call.raised

\* "18/worst" was composed while the engine's probe would have failed.
C23_Witness ==
    /\ call.fn = "compose_format"
    /\ call.done
    /\ call.user_selector = <<"18", "/", "worst">>
    /\ call.engine.raised
    /\ call.result = <<"18", "/", "worst">>

\* ---------------------------------------------------------------- C24
\* The call composed a bare selector and the probe returned formats among
\* which the selector's id is found: fmt is the first format with that id.
FoundFormat(fmt) ==
    /\ call.fn = "compose_format"
    /\ call.done
    /\ Len(call.user_selector) = 1
    /\ ~call.engine.raised
    /\ \E i \in 1..Len(call.engine.formats) :
         /\ call.engine.formats[i] = fmt
         /\ fmt.format_id = call.user_selector[1]
         /\ \A k \in 1..(i - 1) :
              call.engine.formats[k].format_id # call.user_selector[1]

\* The format has an audio codec that is not "none".
HasAudio(fmt) == fmt.acodec \in {Some("mp4a")}

\* C24: a bare selector whose format id is found in the probe result is
\* returned as it is if and only if that format has a real audio codec,
\* whatever its video codec, and is returned with "+bestaudio/best"
\* appended if and only if the format lacks an audio track.
C24_AudioDecidesTheSelector ==
    \A fmt \in Formats :
      FoundFormat(fmt)
      => /\ call.result = call.user_selector <=> HasAudio(fmt)
         /\ call.result = call.user_selector \o <<"+", "bestaudio", "/", "best">>
              <=> ~HasAudio(fmt)

\* ---------------------------------------------------------------- C25
\* C25: for a bare selector, when probing the engine fails, the result is
\* the selector with "+bestaudio/best" appended and no exception leaves
\* format composition.
C25_ProbeFailureFallsBack ==
    call.fn = "compose_format" /\ call.done
      /\ Len(call.user_selector) = 1 /\ call.engine.raised
    => /\ call.result = call.user_selector \o <<"+", "bestaudio", "/", "best">>
       /\ call.probed
       /\ ~call.raised

\* "18" was composed while the probe failed.
C25_Witness ==
    /\ call.fn = "compose_format"
    /\ call.done
    /\ call.user_selector = <<"18">>
    /\ call.engine.raised
    /\ call.result = <<"18", "+", "bestaudio", "/", "best">>

\* ---------------------------------------------------------------- C26
\* "stem (n)suffix" in the directory of p.
Disambiguated(p, n) ==
    [parent |-> p.parent, stem |-> p.stem \o <<n>>, suffix |-> p.suffix]

\* C26: unique-path disambiguation returns p itself when p does not exist,
\* and otherwise "stem (n)suffix" in the same directory for the smallest
\* n >= 1 for which that path does not exist; the path returned never names
\* an existing file, and n is at most the number of existing files plus one.
C26_UniquePathIsFirstFree ==
    call.fn = "unique_path" /\ call.done
    => /\ call.result \notin call.existing
       /\ call.p \notin call.existing => call.result = call.p
       /\ call.p \in call.existing
          => \E n \in 1..(Cardinality(call.existing) + 1) :
               /\ call.result = Disambiguated(call.p, n)
               /\ \A m \in 1..(n - 1) : Disambiguated(call.p, m) \in call.existing

\* "video.mp4" was asked for while it, "video (1).mp4" and "video (3).mp4"
\* exist: "video (2).mp4" is returned.
C26_Witness ==
    /\ call.fn = "unique_path"
    /\ call.done
    /\ call.p.stem = <<"video">>
    /\ {f.stem : f \in {g \in call.existing : g.parent = call.p.parent}}
         = {<<"video">>, <<"video", 1>>, <<"video", 3>>}
    /\ call.result.stem = <<"video", 2>>

\* ---------------------------------------------------------------- C27
\* The engine's only report was 'finished' with a file name, the download
\* call has returned, and the worker has finished.
FinishedAtOnce(j) ==
    /\ reported[j] = "finished"
    /\ thread[j] = "returned"
    /\ pc[j] = "done"

\* C27: for a job whose engine at once reports 'finished' with a file name
\* and whose download call then returns, every snapshot taken after the
\* worker has finished shows SUCCEEDED, progressPercent 100.0 and a
\* filePath.
C27_FinishedJobSnapshot ==
    \A j \in DOMAIN jobs :
      FinishedAtOnce(j)
      => /\ Job_snapshot(jobs[j]).status = SUCCEEDED
         /\ Job_snapshot(jobs[j]).progressPercent = Hundred
         /\ Job_snapshot(jobs[j]).filePath # None

\* Such a job, whose worker returned from run_download.
C27_Witness ==
    \E j \in DOMAIN jobs :
      /\ FinishedAtOnce(j)
      /\ tasks[j].state = "finished"
      /\ Job_snapshot(jobs[j]).filePath = Some("video.mp4")

\* ---------------------------------------------------------------- C28
\* C28: create_job returns a job whose id no job of the registry has,
\* inserts it QUEUED with progress 0 and no result or error, and gives it
\* an empty subscriber set; the records and the subscriber sets of the
\* other jobs are left as they were.
C28_CreateJobAddsOneQueuedJob ==
    [][resp'.op = "download" /\ resp'.ok
         => /\ resp'.id \notin DOMAIN jobs
            /\ DOMAIN jobs' = DOMAIN jobs \cup {resp'.id}
            /\ jobs'[resp'.id].status = QUEUED
            /\ jobs'[resp'.id].progress_percent = Zero
            /\ jobs'[resp'.id].file_path = NoPath
            /\ jobs'[resp'.id].error = NoError
            /\ subscribers'[resp'.id] = {}
            /\ \A other \in DOMAIN jobs : jobs'[other] = jobs[other]
            /\ \A other \in DOMAIN subscribers :
                 subscribers'[other] = subscribers[other]]_vars

\* A job was created while another job, past QUEUED, had a subscriber.
C28_Witness ==
    /\ resp.op = "download"
    /\ resp.ok
    /\ jobs[resp.id].status = QUEUED
    /\ subscribers[resp.id] = {}
    /\ \E other \in DOMAIN jobs \ {resp.id} :
         /\ jobs[other].status # QUEUED
         /\ subscribers[other] # {}

\* ---------------------------------------------------------------- C29
\* A message is being delivered to an observer: the last step called a
\* send_json, or a broadcast or a handler is suspended in one.
Delivering ==
    \/ out.to # NoObserver
    \/ \E j \in DOMAIN jobs : InBroadcast(j)
    \/ \E i \in 1..Len(bq) : bq[i].started
    \/ \E ws \in Observers : conn[ws].state = "closing"

\* A call of the engine's download is in progress on some thread.
EngineCall ==
    \E j \in DOMAIN jobs : thread[j] \notin {"none", "returned", "raised"}

\* Some task is suspended at an await: a worker in a send or in to_thread,
\* a handler in its sleep.
Suspended ==
    \/ \E j \in DOMAIN jobs : InBroadcast(j) \/ pc[j] = "to_thread"
    \/ \E ws \in Observers : conn[ws].state = "open"

ThreadStep(j) ==
    /\ j \in DOMAIN thread
    /\ thread[j] \notin {"none", "returned", "raised"}
    /\ thread'[j] # thread[j]

\* C30: the progress callback hands its updates over to the event loop
\* before they take effect: no step of the download thread writes a field
\* of the job record or delivers an event, so that each field is written
\* from the loop alone.
C30_ThreadWritesNothing ==
    [][\A j \in DOMAIN jobs :
         ThreadStep(j) => jobs'[j] = jobs[j] /\ out'.to = NoObserver]_vars

\* ---------------------------------------------------------------- C33
\* The ratio of the bytes, and of the fragments, as a percent in [0, 100].
BytesRatio(downloaded, total) ==
    PMax(Zero, PMin(Hundred, Frac(downloaded * 100, total)))
Raised(percent, recorded) == PMax(percent, recorded)
HookCallDone == call.fn = "hook_percent" /\ call.done
CallbackTotal == total_val(call.total_bytes, call.total_bytes_estimate)
TotalKnown == CallbackTotal # None /\ CallbackTotal[1] > 0

\* C33 as stated: on a 'downloading' callback with the total size known and
\* positive the percent stored is the bytes ratio clamped to [0,100], raised
\* to the recorded percent if lower, whatever the fragment counters say.
C33_BytesRatioWhenTotalKnown ==
    (HookCallDone /\ TotalKnown)
      => call.result = Raised(BytesRatio(call.downloaded_bytes, CallbackTotal[1]),
                              call.recorded)

\* C33 amended: the percent stored is the fragment ratio whenever the engine
\* reports more than one fragment, whether or not the total is known; with
\* at most one fragment it is the bytes ratio when the total is known and
\* positive and 0 otherwise; in every case raised to the recorded percent.
C33_FragmentRatioComesFirst ==
    HookCallDone =>
      call.result =
        Raised(IF call.fragment_count > 1
               THEN BytesRatio(call.fragment_index, call.fragment_count)
               ELSE IF TotalKnown
                    THEN BytesRatio(call.downloaded_bytes, CallbackTotal[1])
                    ELSE Zero,
               call.recorded)

\* A callback with a known total and several fragments whose percent is not
\* the one of the bytes.
C33_Witness ==
    /\ HookCallDone
    /\ TotalKnown
    /\ call.fragment_count > 1
    /\ call.result # Raised(BytesRatio(call.downloaded_bytes, CallbackTotal[1]),
                            call.recorded)

\* ---------------------------------------------------------------- C31
\* Job j is inside a call of the engine: the probe of format composition or
\* the rendering of the file name (the worker's first step), or the
\* download.
InEngineCall(j) ==
    \/ j \in loop
    \/ thread[j] \notin {"none", "returned", "raised"}

\* C31: every blocking call into the engine made for a job runs off the
\* event loop: while a job is inside an engine call the loop is free to run
\* other jobs' workers, registry operations and stream handlers.
C31_EngineCallsLeaveTheLoopFree ==
    \A j \in DOMAIN jobs : InEngineCall(j) => LoopIdle

\* ---------------------------------------------------------------- C32
\* C32: get_job(id) finds a record if and only if an earlier create_job
\* returned id: no id is found at the start, an id becomes found only by
\* the create_job that returns it, a record once found stays found (no
\* record is removed, terminal ones included), and an id that was never
\* created is answered 404.
C32_JobsAreFoundOnceCreated ==
    /\ \A id \in {UnknownId} \cup RequestIds : get_job(id) = None
    /\ [](get_job_status(UnknownId) = 404)
    /\ [][\A id \in {UnknownId} \cup RequestIds :
            /\ get_job(id) # None => get_job(id)' # None
            /\ get_job(id) = None /\ get_job(id)' # None
                 => resp'.op = "download" /\ resp'.ok /\ resp'.id = id
            /\ get_job_status(id)' = 200 <=> id \in DOMAIN tasks']_vars

\* Two jobs were created; the first has reached a terminal status and is
\* still found.
C32_Witness ==
    \E id \in DOMAIN jobs : \E other \in DOMAIN jobs \ {id} :
      /\ jobs[id].status \in Terminal
      /\ get_job(id) = Some(jobs[id])
      /\ get_job_status(other) = 200
      /\ get_job_status(UnknownId) = 404

\* ---------------------------------------------------------------- C34
\* C34: the step that takes a job from QUEUED to RUNNING resets
\* progressPercent and bytesDownloaded to 0, clears totalBytes, error and
\* filePath and broadcasts the status event; no progress, complete or error
\* event is sent for a job still QUEUED; and a job is RUNNING by the time
\* the worker makes an engine call that can fail it.
C34_EntryComesBeforeTheEngine ==
    [][\A j \in DOMAIN jobs :
         /\ (jobs[j].status = QUEUED /\ jobs'[j].status = RUNNING)
              => /\ jobs'[j].progress_percent = Zero
                 /\ jobs'[j].bytes_downloaded = 0
                 /\ jobs'[j].total_bytes = None
                 /\ jobs'[j].error = NoError
                 /\ jobs'[j].file_path = NoPath
                 /\ subscribers_of(j) # {} => pc'[j] = "bcast_status"
         /\ (/\ out'.type \in {"progress", "complete", "error"}
             /\ conn[out'.to].state = "open"
             /\ conn[out'.to].job = j)
              => jobs[j].status # QUEUED
         /\ j \in loop' => jobs'[j].status # QUEUED]_vars

\* ---------------------------------------------------------------- C35
\* The worker's step after await asyncio.to_thread(_blocking) when the
\* download returned normally (a cancelled task takes no such step).
ResumedAfterReturn(j) ==
    /\ pc[j] = "to_thread"
    /\ pc'[j] # "to_thread"
    /\ thread[j] = "returned"
    /\ tasks'[j].state # "cancelled"

\* C35: when the download call returns normally with the status still
\* RUNNING the worker sets SUCCEEDED and 100.0 and makes one broadcast of
\* 'complete', sent once to each subscriber; when a 'finished' callback has
\* already made the job SUCCEEDED the worker changes nothing and sends
\* nothing; the worker starts a 'complete' broadcast in no other step and
\* takes no step after it has ended.
C35_WorkerCompletesOnce ==
    [][\A j \in DOMAIN jobs :
         /\ ResumedAfterReturn(j)
              => IF jobs[j].status = RUNNING
                 THEN /\ jobs'[j].status = SUCCEEDED
                      /\ jobs'[j].progress_percent = Hundred
                      /\ IF subscribers_of(j) = {}
                         THEN pc'[j] = "done" /\ out' = NoMsg
                         ELSE /\ pc'[j] = "bcast_complete"
                              /\ awaiting'[j] \in subscribers_of(j)
                              /\ pending'[j] = subscribers_of(j) \ {awaiting'[j]}
                              /\ out' # NoMsg => out'.type = "complete"
                 ELSE /\ jobs'[j] = jobs[j]
                      /\ pc'[j] = "done"
                      /\ out' = NoMsg
         /\ (pc'[j] = "bcast_complete" /\ pc[j] # "bcast_complete")
              => ResumedAfterReturn(j) /\ jobs[j].status = RUNNING
         /\ (pc[j] = "bcast_complete" /\ pc'[j] = "bcast_complete")
              => /\ pending'[j] \subseteq pending[j]
                 /\ out' # NoMsg /\ out'.type = "complete" /\ out'.to \in pending[j]
                      => out'.to \notin pending'[j]
         /\ pc[j] = "done" => pc'[j] = "done"]_vars

\* The worker is in the complete broadcast of a download that returned
\* without any callback of the hook.
C35_Witness ==
    \E j \in DOMAIN jobs :
      /\ pc[j] = "bcast_complete"
      /\ jobs[j].status = SUCCEEDED
      /\ reported[j] = "nothing"

\* The worker has returned without a broadcast of its own after a
\* 'finished' callback had made the job SUCCEEDED.
C35_WitnessFinished ==
    \E j \in DOMAIN jobs :
      /\ pc[j] = "done"
      /\ tasks[j].state = "finished"
      /\ reported[j] = "finished"
      /\ subscribers_of(j) # {}

\* ---------------------------------------------------------------- C36
\* send_json to o raises: the remote end of o has disconnected.
DeliveryFails(o) == conn[o].remote = "gone"

\* This step is subscribe or unsubscribe for observer ws and job id.
SubscribeOrUnsubscribe(ws, id) ==
    \/ /\ conn[ws].state = "new" /\ conn'[ws].state = "open"
       /\ conn'[ws].job = id
       /\ subscribers' = subscribe(subscribers, id, ws)
    \/ /\ conn[ws].state \in {"open", "closing"} /\ conn'[ws].state = "closed"
       /\ conn[ws].job = id
       /\ subscribers' = unsubscribe(subscribers, id, ws)

InRange(percent) == Leq(Zero, percent) /\ Leq(percent, Hundred)
SafeCallDone == call.fn = "safe_percent" /\ call.done

\* C37: the progressPercent of every job is in [0,100] in every state, and
\* so is the percent a 'downloading' callback stores; _safe_percent returns
\* 0 when the total is None or not positive, else 100 when downloaded
\* exceeds the total, 0 when downloaded is negative, and downloaded/total*100
\* otherwise, for negative, zero and positive integers.
C37_PercentStaysInRange ==
    /\ \A j \in DOMAIN jobs : InRange(jobs[j].progress_percent)
    /\ HookCallDone => InRange(call.result)
    /\ SafeCallDone
         => call.result =
              IF call.total = None \/ call.total[1] <= 0 THEN Zero
              ELSE IF call.downloaded > call.total[1] THEN Hundred
              ELSE IF call.downloaded < 0 THEN Zero
              ELSE Frac(call.downloaded * 100, call.total[1])

\* _safe_percent has clamped a ratio above 100.
C37_Witness ==
    /\ SafeCallDone
    /\ call.total # None
    /\ call.total[1] > 0
    /\ call.downloaded > call.total[1]
    /\ call.result = Hundred

\* ---------------------------------------------------------------- C38
\* The downloads of two jobs overlap: both download threads are running.
Overlap(j1, j2) == j1 # j2 /\ thread[j1] = "running" /\ thread[j2] = "running"

\* C38: two jobs whose downloads overlap in time never have the same final
\* output path, also when each computed its path before the other had
\* written its file.
C38_OverlappingJobsGetDistinctPaths ==
    \A j1 \in DOMAIN jobs : \A j2 \in DOMAIN jobs :
        Overlap(j1, j2) => outfile[j1] # outfile[j2]

\* ---------------------------------------------------------------- C39
\* cancel(j) has returned true and the worker task of j has been cancelled.
WorkerWasCancelled(j) == tasks[j].state = "cancelled"

\* C39: once the worker task of a job has been cancelled, no step writes
\* the job's record, no progress or complete event is handed to the loop
\* for it, and its status does not become SUCCEEDED.
C39_CancelledJobIsNoLongerDriven ==
    [][\A j \in DOMAIN jobs :
         WorkerWasCancelled(j)
           => /\ jobs'[j] = jobs[j]
              /\ Len(bq') > Len(bq) => bq'[Len(bq')].job # j
              /\ jobs[j].status # SUCCEEDED => jobs'[j].status # SUCCEEDED]_vars

\* ---------------------------------------------------------------- C40
\* C40: a broadcast sends to exactly the observers of the snapshot it took
\* when it was invoked: its first send goes to one of them and the others
\* are left to do, each later send goes to one still to do and takes it
\* off, the broadcast returns when none is left, and no subscribe or
\* unsubscribe changes the observers a broadcast under way has still to do:
\* an observer subscribed after the snapshot is not sent the message, one
\* unsubscribed after it still is.
C40_BroadcastSendsToItsSnapshot ==
    [][/\ \A i \in 1..Len(bq) :
            /\ HookBroadcastInvoked(i)
                 => LET snapshot == subscribers_of(bq[i].job)
                    IN IF Len(bq') = Len(bq)
                       THEN /\ bq'[i].cur \in snapshot
                            /\ bq'[i].todo = snapshot \ {bq'[i].cur}
                            /\ out' # NoMsg => out'.to = bq'[i].cur
                       ELSE /\ Cardinality(snapshot) <= 1
                            /\ out' # NoMsg => out'.to \in snapshot
            /\ (bq[i].started /\ Len(bq') = Len(bq) /\ bq'[i] # bq[i])
                 => /\ bq'[i].cur \in bq[i].todo
                    /\ bq'[i].todo = bq[i].todo \ {bq'[i].cur}
                    /\ out' # NoMsg => out'.to = bq'[i].cur
            /\ (bq[i].started /\ Len(bq') < Len(bq) /\ bq' = Remove(bq, i))
                 => /\ Cardinality(bq[i].todo) <= 1
                    /\ out' # NoMsg => out'.to \in bq[i].todo
       /\ \A j \in DOMAIN jobs :
            /\ WorkerBroadcastInvoked(j)
                 => IF pc'[j] = "done"
                    THEN subscribers_of(j) = {} /\ out' = NoMsg
                    ELSE /\ awaiting'[j] \in subscribers_of(j)
                         /\ pending'[j] = subscribers_of(j) \ {awaiting'[j]}
                         /\ out' # NoMsg => out'.to = awaiting'[j]
            /\ (InBroadcast(j) /\ pc'[j] = pc[j] /\ awaiting'[j] # awaiting[j])
                 => /\ awaiting'[j] \in pending[j]
                    /\ pending'[j] = pending[j] \ {awaiting'[j]}
                    /\ out' # NoMsg => out'.to = awaiting'[j]
            /\ (InBroadcast(j) /\ pc'[j] # pc[j] /\ tasks'[j].state # "cancelled")
                 => pending[j] = {} /\ out' = NoMsg
       /\ subscribers' # subscribers
            => bq' = bq /\ pending' = pending /\ awaiting' = awaiting]_vars

\* An observer is delivered a complete or error event of a broadcast after
\* its unsubscribe has returned.
C40_Witness ==
    \E o \in Observers :
      /\ conn[o].state = "closed"
      /\ o \notin subscribers_of(conn[o].job)
      /\ out.to = o
      /\ out.type \in EndTypes

\* The Latecomer has subscribed while a broadcast of the worker is under
\* way whose snapshot does not hold it.
C40_WitnessLate ==
    \E j \in DOMAIN jobs :
      /\ InBroadcast(j)
      /\ Latecomer \in subscribers_of(j)
      /\ Latecomer \notin pending[j] \cup {awaiting[j]}
====
